---- MODULE Spec2Model ----
(***************************************************************************)
(* Model of comQ_Batch_VIDS_downloader.py: the concurrent download engine  *)
(* (sanitize_filename, download_video, download_videos_concurrently and    *)
(* the part of __main__ that calls it and prints the summary).             *)
(*                                                                         *)
(* Text (URLs, file names) is a sequence of one-character strings, so that *)
(* parsing, sanitizing, splitting and suffixing are computed as the code   *)
(* computes them.  The target directory is a function from the names of    *)
(* the files in it to their contents.                                      *)
(***************************************************************************)
EXTENDS Integers, Sequences, FiniteSets, TLC

(***************************************************************************)
(* Bounds of the model.                                                    *)
(***************************************************************************)
\* largest batch explored with every combination of inputs
MaxTasks == 2
\* size of the batch that saturates the worker pool
PoolTasks == 6
\* number of 1k chunks in the body of every video response
BodyChunks == 2
\* longest filename hint among the URLs that exercise sanitize_filename
HintLen == 6

(***************************************************************************)
(* Program constants.                                                      *)
(***************************************************************************)
\* ThreadPoolExecutor(max_workers=5)
max_workers == 5

(***************************************************************************)
(* Text helpers (str methods, re.sub, os.path).                            *)
(***************************************************************************)
\* s[i:] of Python, 1-based here: the characters from position i on
From(s, i) == SubSeq(s, i, Len(s))

\* s[:i-1] of Python, 1-based here: the characters before position i
Before(s, i) == SubSeq(s, 1, i - 1)

\* s.startswith(p) at position i
HasAt(s, i, p) == i + Len(p) - 1 <= Len(s) /\ SubSeq(s, i, i + Len(p) - 1) = p

\* s.find(c): first position of the character c, 0 when absent
Find(s, c) ==
    IF \E i \in 1..Len(s) : s[i] = c
    THEN CHOOSE i \in 1..Len(s) : s[i] = c /\ \A j \in 1..(i - 1) : s[j] # c
    ELSE 0

\* s.rfind(c): last position of the character c, 0 when absent
RFind(s, c) ==
    IF \E i \in 1..Len(s) : s[i] = c
    THEN CHOOSE i \in 1..Len(s) : s[i] = c /\ \A j \in (i + 1)..Len(s) : s[j] # c
    ELSE 0

\* position of the first character of s that is in the set cs, Len(s)+1 when none
FindAny(s, cs) ==
    IF \E i \in 1..Len(s) : s[i] \in cs
    THEN CHOOSE i \in 1..Len(s) : s[i] \in cs /\ \A j \in 1..(i - 1) : s[j] \notin cs
    ELSE Len(s) + 1

\* s.split(c): the pieces of s between the occurrences of the character c
RECURSIVE Split(_, _)
Split(s, c) ==
    IF Find(s, c) = 0 THEN <<s>>
    ELSE <<Before(s, Find(s, c))>> \o Split(From(s, Find(s, c) + 1), c)

\* s.replace(old, new): left to right, non-overlapping, in one pass
RECURSIVE Replace(_, _, _)
Replace(s, old, new) ==
    IF s = <<>> THEN <<>>
    ELSE IF HasAt(s, 1, old) THEN new \o Replace(From(s, Len(old) + 1), old, new)
    ELSE <<s[1]>> \o Replace(Tail(s), old, new)

\* str(n) for n >= 0
Digits == <<"0", "1", "2", "3", "4", "5", "6", "7", "8", "9">>

RECURSIVE IntStr(_)
IntStr(n) ==
    IF n < 10 THEN <<Digits[n + 1]>>
    ELSE IntStr(n \div 10) \o <<Digits[(n % 10) + 1]>>

\* the characters scheme_chars of urllib.parse that the modelled URLs use
SchemeChars == {"h", "t", "p", "s", "f", "x", "v", "w", "m", "g", "1", "2", "0", "+", "-", "."}

\* str.isalpha() on the characters the modelled URLs use
IsAlpha(c) == c \in {"h", "t", "p", "s", "f", "x", "v", "w", "m", "g"}

\* the hex escapes urllib.parse.unquote decodes, for the escapes the modelled URLs use
HexChar(h) ==
    CASE h = <<"2", "0">> -> <<" ">>
      [] h = <<"2", "5">> -> <<"%">>
      [] h = <<"2", "2">> -> <<"\"">>
      [] h = <<"3", "F">> -> <<"?">>
      [] h = <<"0", "0">> -> <<"NUL">>
      [] h = <<"0", "2">> -> <<"STX">>
      [] OTHER -> <<"%">> \o h

HexDigits == {"0", "1", "2", "3", "4", "5", "6", "7", "8", "9", "A", "B", "C", "D", "E", "F"}

\* urllib.parse.unquote: every %XX escape decoded, in one pass
RECURSIVE unquote(_)
unquote(s) ==
    IF s = <<>> THEN <<>>
    ELSE IF s[1] = "%" /\ Len(s) >= 3 /\ s[2] \in HexDigits /\ s[3] \in HexDigits
         THEN HexChar(SubSeq(s, 2, 3)) \o unquote(From(s, 4))
    ELSE <<s[1]>> \o unquote(Tail(s))

\* urlsplit(url): scheme, then netloc after '//', then fragment, then query
urlsplit(url) ==
    LET i == Find(url, ":")
        hasScheme == /\ i > 1
                     /\ IsAlpha(url[1])
                     /\ \A j \in 1..(i - 1) : url[j] \in SchemeChars
        u1 == IF hasScheme THEN From(url, i + 1) ELSE url
        hasNetloc == HasAt(u1, 1, <<"/", "/">>)
        afterSl == From(u1, 3)
        n == FindAny(afterSl, {"/", "?", "#"})
        u2 == IF hasNetloc THEN From(afterSl, n) ELSE u1
        h == Find(u2, "#")
        u3 == IF h > 0 THEN Before(u2, h) ELSE u2
        q == Find(u3, "?")
    IN  [scheme |-> IF hasScheme THEN Before(url, i) ELSE <<>>,
         netloc |-> IF hasNetloc THEN Before(afterSl, n) ELSE <<>>,
         path |-> IF q > 0 THEN Before(u3, q) ELSE u3,
         query |-> IF q > 0 THEN From(u3, q + 1) ELSE <<>>]

\* one field of parse_qsl: <<name, value>> of "name=value", dropped (<<>>) when
\* the field is empty, has no '=' or has a blank value (keep_blank_values=False)
QsField(nv) ==
    LET e == Find(nv, "=")
        name == Before(nv, e)
        value == From(nv, e + 1)
    IN  IF e = 0 \/ value = <<>> THEN <<>>
        ELSE << <<unquote(Replace(name, <<"+">>, <<" ">>)),
                  unquote(Replace(value, <<"+">>, <<" ">>))>> >>

\* parse_qsl(query): the <<name, value>> pairs in the order of the query
RECURSIVE QsFields(_)
QsFields(fs) ==
    IF fs = <<>> THEN <<>> ELSE QsField(Head(fs)) \o QsFields(Tail(fs))

parse_qsl(query) == QsFields(Split(query, "&"))

\* parse_qs(query)[key]: the values of key in order (<<>> when key is absent)
parse_qs(query, key) ==
    LET ps == parse_qsl(query)
    IN  SelectSeq(ps, LAMBDA p : p[1] = key)

\* os.path.basename(path): what follows the last '/'
basename(path) == From(path, RFind(path, "/") + 1)

\* the character class [<>:"/\\|?*] of the re.sub call
Forbidden == {"<", ">", ":", "\"", "/", "\\", "|", "?", "*"}

\* re.sub(r'[<>:"/\\|?*]', '_', s)
ReSub(s) == [i \in 1..Len(s) |-> IF s[i] \in Forbidden THEN "_" ELSE s[i]]

\* sanitize_filename(video_url)
sanitize_filename(video_url) ==
    LET parsed_url == urlsplit(video_url)
        f == parse_qs(parsed_url.query, <<"f">>)
        filename == IF f # <<>> THEN f[1][2] ELSE basename(parsed_url.path)
    IN  ReSub(Replace(filename, <<"%", "2", "0">>, <<>>))

\* os.path.splitext(name) for a name without separators: <<root, ext>>, the
\* extension starting at the last dot unless only dots precede it
splitext(p) ==
    LET dotIndex == RFind(p, ".")
    IN  IF dotIndex > 0 /\ \E k \in 1..(dotIndex - 1) : p[k] # "."
        THEN <<Before(p, dotIndex), From(p, dotIndex)>>
        ELSE <<p, <<>> >>

\* Suffixed with the numbering starting at 0 (counter = 0 before the loop)
SuffixedFromZero(base_name, counter, ext) ==
    base_name \o <<"_">> \o IntStr(counter - 1) \o ext

\* Suffixed without the counter: the loop probes the name with the suffix _1 again
SuffixedStuck(base_name, counter, ext) == base_name \o <<"_">> \o IntStr(1) \o ext

\* f"{base_name}_{counter}{ext}"
Suffixed(base_name, counter, ext) == base_name \o <<"_">> \o IntStr(counter) \o ext

(***************************************************************************)
(* Inputs.                                                                 *)
(***************************************************************************)
\* "http://x/v.m": the hint is the last path segment, v.m
UrlPath == <<"h", "t", "t", "p", ":", "/", "/", "x", "/", "v", ".", "m">>

\* "http://x/g?f=v_1.m": the hint is the value of the query parameter f, v_1.m
UrlQuery == <<"h", "t", "t", "p", ":", "/", "/", "x", "/", "g", "?", "f", "=", "v", "_", "1", ".", "m">>

Urls == {UrlPath, UrlQuery}

\* the characters of the hints that exercise sanitize_filename: the characters
\* of '%20' and a forbidden one
HintChars == {"%", "2", "0", ":"}

\* every hint of at most HintLen characters
HintSet == UNION {[1..n -> HintChars] : n \in 0..HintLen}

\* "http://x/" followed by the hint as the last path segment
PathUrl(h) == <<"h", "t", "t", "p", ":", "/", "/", "x", "/">> \o h

\* "http://x/g?f=" followed by the hint as the value of the query parameter f
QueryUrl(h) ==
    <<"h", "t", "t", "p", ":", "/", "/", "x", "/", "g", "?", "f", "=">> \o h

\* "http://x/" followed by a path and a query that name the file in several ways
Rest(r) == <<"h", "t", "t", "p", ":", "/", "/", "x", "/">> \o r

FieldUrls ==
    {Rest(<<"g", "?", "f", "=", "c", ".", "m", "&", "i", "=", "9">>),
     Rest(<<"g", "?", "i", "=", "9", "&", "f", "=", "c", ".", "m">>),
     Rest(<<"g", "?", "f", "=", "a", "&", "f", "=", "b">>),
     Rest(<<"g", "?", "f", "=", "&", "f", "=", "b">>),
     Rest(<<"g", "?", "f", "=", "&", "i", "=", "9">>),
     Rest(<<"p", "/", "?", "f", "=">>),
     Rest(<<"g", "?", "f">>),
     Rest(<<"g", "?", "i", "=", "9">>),
     Rest(<<"p", "/", "?", "i", "=", "9">>),
     Rest(<<"g", "#", "?", "f", "=", "b">>),
     Rest(<<".">>),
     Rest(<<".", ".">>)}

\* the URLs that exercise sanitize_filename
SanUrls == {PathUrl(h) : h \in HintSet} \cup {QueryUrl(h) : h \in HintSet} \cup FieldUrls

\* names a file of the target directory may have before the batch starts
NameV == <<"v", ".", "m">>

NameV1 == <<"v", "_", "1", ".", "m">>

PreNames == {NameV, NameV1}

\* what the network and the disk do to a task, at the first point where they fail it:
\*   ok         nothing fails
\*   fetchfail  requests.get raises, or raise_for_status does (non-2xx)
\*   notvideo   the response arrives with a Content-Type without 'video'
\*   streamerr  iter_content raises a RequestException before the body is complete
\*   openerr    open(video_path, "wb") raises OSError
\*   writeerr   video_file.write(chunk) raises OSError before the body is complete
Fates == {"ok", "fetchfail", "notvideo", "streamerr", "openerr", "writeerr"}

\* the content of a file that exists before the batch: one chunk written by nobody (0)
OldData == <<0>>

(***************************************************************************)
(* State.                                                                  *)
(***************************************************************************)
VARIABLES
    selected_videos,   \* the input list of URLs (download_videos_concurrently's argument)
    fate,              \* fate[i]: what the environment does to task i
    dirExists,         \* os.path.exists(download_folder)
    files,             \* name -> [writers, data]: the files of download_folder
    preexisting,       \* the names of the files that were there before the batch
    pc,                \* pc[i]: where task i is in download_video
    video_name,        \* video_name[i]: the local video_name of task i
    counter,           \* counter[i]: the local counter of task i
    written,           \* written[i]: chunks task i has written through its handle
    outcome,           \* outcome[i]: how download_video ended for task i
    cpc,               \* where the calling thread is
    ci,                \* index of the future the result iterator waits for
    cj,                \* index of the future the iterator's cleanup cancels next
    downloaded_count,  \* the local downloaded_count of download_videos_concurrently
    report             \* what __main__ printed: <<downloaded_count, len(selected_videos)>>

vars == <<selected_videos, fate, dirExists, files, preexisting, pc, video_name,
          counter, written, outcome, cpc, ci, cj, downloaded_count, report>>

inputs == <<selected_videos, fate, preexisting>>

locals == <<video_name, counter, written>>

coord == <<cpc, ci, cj, downloaded_count, report>>

Tasks == 1..Len(selected_videos)

\* tasks a worker thread is executing
Running == {i \in Tasks : pc[i] \notin {"queued", "done", "cancelled"}}

\* tasks between issuing the GET and the end of download_video
Connected == {i \in Tasks : pc[i] \in {"await", "resolve", "probe", "open", "write"}}

\* PathExists without the test: every name is taken to be free
PathExistsNever(name) == FALSE

\* the names that os.path.join(download_folder, name) turns into the path of a
\* directory: the folder itself ('' and '.') and its parent ('..')
FolderNames == {<<>>, <<".">>, <<".", ".">>}

\* PathExists that looks among the files only
PathExistsFilesOnly(name) == dirExists /\ name \in DOMAIN files

\* os.path.exists(os.path.join(download_folder, name))
PathExists(name) == dirExists /\ (name \in FolderNames \/ name \in DOMAIN files)

NoFile == [writers |-> {}, data |-> <<>>]

\* the states a batch can start in: n in ns tasks, URLs from us, fates from fs[n]
InitWith(ns, us, fs) ==
    /\ \E n \in ns :
         /\ selected_videos \in [1..n -> us]
         /\ fate \in fs[n]
         /\ pc = [i \in 1..n |-> "queued"]
         /\ video_name = [i \in 1..n |-> <<>>]
         /\ counter = [i \in 1..n |-> 0]
         /\ written = [i \in 1..n |-> 0]
         /\ outcome = [i \in 1..n |-> "none"]
    /\ dirExists \in BOOLEAN
    /\ preexisting \in (IF dirExists THEN SUBSET PreNames ELSE {{}})
    /\ files = [nm \in preexisting |-> [writers |-> {}, data |-> OldData]]
    /\ cpc = "main"
    /\ ci = 1
    /\ cj = 0
    /\ downloaded_count = 0
    /\ report = <<>>

\* every combination of fates
AllFates == [n \in 0..MaxTasks |-> [1..n -> Fates]]

\* the first task has any fate; the others all fail their fetch, or all are no video
OneLongTask ==
    [n \in {PoolTasks} |->
        {[i \in 1..n |-> IF i = 1 THEN f1 ELSE f2] :
            f1 \in Fates, f2 \in {"fetchfail", "notvideo"}}]

\* batches of up to MaxTasks tasks, with every combination of URLs and fates
Init == InitWith(0..MaxTasks, Urls, AllFates)

\* nothing fails
OkOnly == [n \in {1} |-> {[i \in 1..n |-> "ok"]}]

\* single downloads: of the URLs of Urls with every fate and folder, and of the
\* URLs of SanUrls into an empty folder with nothing failing
InitSan ==
    \/ InitWith({1}, Urls, AllFates)
    \/ /\ InitWith({1}, SanUrls, OkOnly)
       /\ dirExists
       /\ preexisting = {}

\* batches of PoolTasks tasks, more than the pool has workers: into a folder that
\* holds v.m already, or into a missing folder (then with the fates ok, fetchfail, ...)
InitPool ==
    /\ InitWith({PoolTasks}, {UrlPath}, OneLongTask)
    /\ IF dirExists
       THEN preexisting = {NameV}
       ELSE fate[1] = "ok" /\ fate[PoolTasks] = "fetchfail"

(***************************************************************************)
(* download_video, one action per system call or request.                  *)
(***************************************************************************)
\* download_video returns result r (or raises, r = "Raised") in task i
Finish(i, r) ==
    /\ pc' = [pc EXCEPT ![i] = "done"]
    /\ outcome' = [outcome EXCEPT ![i] = r]

\* SlotFree of a pool that starts one thread per task
SlotFreeUnbounded == TRUE

\* SlotFree of a pool that runs one task at a time
SlotFreeSerial == Running = {}

\* a worker has a free slot for the next work item of the queue
SlotFree == Cardinality(Running) < max_workers

\* a worker thread takes the next work item that is not cancelled and runs it
Admit(i) ==
    /\ i \in Tasks
    /\ cpc \notin {"main"}
    /\ pc[i] = "queued"
    /\ \A j \in 1..(i - 1) : pc[j] # "queued"
    /\ SlotFree
    /\ pc' = [pc EXCEPT ![i] = "checkdir"]
    /\ UNCHANGED <<inputs, dirExists, files, locals, outcome, coord>>

\* if not os.path.exists(download_folder):
CheckDir(i) ==
    /\ i \in Tasks
    /\ pc[i] = "checkdir"
    /\ pc' = [pc EXCEPT ![i] = IF dirExists THEN "get" ELSE "mkdir"]
    /\ UNCHANGED <<inputs, dirExists, files, locals, outcome, coord>>

\* os.makedirs(download_folder): FileExistsError when the folder is there by now
MakeDirs(i) ==
    /\ i \in Tasks
    /\ pc[i] = "mkdir"
    /\ IF dirExists
       THEN Finish(i, "Raised") /\ UNCHANGED dirExists
       ELSE /\ dirExists' = TRUE
            /\ pc' = [pc EXCEPT ![i] = "get"]
            /\ UNCHANGED outcome
    /\ UNCHANGED <<inputs, files, locals, coord>>

\* requests.get(video_url, headers=headers, stream=True) is issued
Get(i) ==
    /\ i \in Tasks
    /\ pc[i] = "get"
    /\ pc' = [pc EXCEPT ![i] = "await"]
    /\ UNCHANGED <<inputs, dirExists, files, locals, outcome, coord>>

\* the GET fails or the status is not 2xx: RequestException, caught, return False
FetchFail(i) ==
    /\ i \in Tasks
    /\ pc[i] = "await"
    /\ fate[i] = "fetchfail"
    /\ Finish(i, "Failed")
    /\ UNCHANGED <<inputs, dirExists, files, locals, coord>>

\* Response without the Content-Type test
ResponseNoCheck(i) ==
    /\ i \in Tasks
    /\ pc[i] = "await"
    /\ fate[i] # "fetchfail"
    /\ pc' = [pc EXCEPT ![i] = "resolve"]
    /\ UNCHANGED <<inputs, dirExists, files, locals, outcome, coord>>

\* the response arrives: return False unless 'video' is in its Content-Type
Response(i) ==
    /\ i \in Tasks
    /\ pc[i] = "await"
    /\ fate[i] # "fetchfail"
    /\ IF fate[i] = "notvideo"
       THEN Finish(i, "SkippedNotVideo")
       ELSE pc' = [pc EXCEPT ![i] = "resolve"] /\ UNCHANGED outcome
    /\ UNCHANGED <<inputs, dirExists, files, locals, coord>>

\* video_name = sanitize_filename(video_url); if os.path.exists(video_path): counter = 1
Resolve(i) ==
    /\ i \in Tasks
    /\ pc[i] = "resolve"
    /\ LET name == sanitize_filename(selected_videos[i])
       IN  /\ video_name' = [video_name EXCEPT ![i] = name]
           /\ IF PathExists(name)
              THEN /\ counter' = [counter EXCEPT ![i] = 1]
                   /\ pc' = [pc EXCEPT ![i] = "probe"]
              ELSE /\ pc' = [pc EXCEPT ![i] = "open"]
                   /\ UNCHANGED counter
    /\ UNCHANGED <<inputs, dirExists, files, written, outcome, coord>>

\* one test of while os.path.exists(video_path), and the loop body when it holds
Probe(i) ==
    /\ i \in Tasks
    /\ pc[i] = "probe"
    /\ LET se == splitext(sanitize_filename(selected_videos[i]))
       IN  IF PathExists(video_name[i])
           THEN /\ video_name' = [video_name EXCEPT ![i] = Suffixed(se[1], counter[i], se[2])]
                /\ counter' = [counter EXCEPT ![i] = counter[i] + 1]
                /\ UNCHANGED pc
           ELSE /\ pc' = [pc EXCEPT ![i] = "open"]
                /\ UNCHANGED <<video_name, counter>>
    /\ UNCHANGED <<inputs, dirExists, files, written, outcome, coord>>

\* open(video_path, "wb"): the file is created, or truncated when it is there
Open(i) ==
    /\ i \in Tasks
    /\ pc[i] = "open"
    /\ fate[i] # "openerr"
    /\ LET nm == video_name[i]
           old == IF nm \in DOMAIN files THEN files[nm] ELSE NoFile
       IN  files' = [x \in DOMAIN files \cup {nm} |->
                        IF x = nm
                        THEN [writers |-> old.writers \cup {i}, data |-> <<>>]
                        ELSE files[x]]
    /\ written' = [written EXCEPT ![i] = 0]
    /\ pc' = [pc EXCEPT ![i] = "write"]
    /\ UNCHANGED <<inputs, dirExists, video_name, counter, outcome, coord>>

\* open raises OSError, which the except clause does not catch
OpenFail(i) ==
    /\ i \in Tasks
    /\ pc[i] = "open"
    /\ fate[i] = "openerr"
    /\ Finish(i, "Raised")
    /\ UNCHANGED <<inputs, dirExists, files, locals, coord>>

\* data with the chunk of task i stored at the offset of its handle
Stored(data, off, i) ==
    [k \in 1..(IF off > Len(data) THEN off ELSE Len(data)) |->
        IF k = off THEN i ELSE IF k <= Len(data) THEN data[k] ELSE -1]

\* one round of the iter_content loop: video_file.write(chunk); after the last
\* chunk the file is closed and download_video returns True
WriteChunk(i) ==
    /\ i \in Tasks
    /\ pc[i] = "write"
    /\ fate[i] \in {"streamerr", "writeerr"} => written[i] + 1 < BodyChunks
    /\ LET nm == video_name[i]
       IN  files' = [files EXCEPT ![nm].data = Stored(@, written[i] + 1, i)]
    /\ written' = [written EXCEPT ![i] = written[i] + 1]
    /\ IF written[i] + 1 = BodyChunks
       THEN Finish(i, "Success")
       ELSE UNCHANGED <<pc, outcome>>
    /\ UNCHANGED <<inputs, dirExists, video_name, counter, coord>>

\* iter_content raises a RequestException mid-stream: caught, return False
StreamFail(i) ==
    /\ i \in Tasks
    /\ pc[i] = "write"
    /\ fate[i] = "streamerr"
    /\ Finish(i, "Failed")
    /\ UNCHANGED <<inputs, dirExists, files, locals, coord>>

\* video_file.write raises OSError mid-stream, which the except clause does not catch
WriteFail(i) ==
    /\ i \in Tasks
    /\ pc[i] = "write"
    /\ fate[i] = "writeerr"
    /\ Finish(i, "Raised")
    /\ UNCHANGED <<inputs, dirExists, files, locals, coord>>

(***************************************************************************)
(* download_videos_concurrently and __main__ (the calling thread).         *)
(***************************************************************************)
\* if selected_videos: the call; executor.map submits every task
Call ==
    /\ cpc = "main"
    /\ cpc' = IF Len(selected_videos) = 0 THEN "exit" ELSE "iter"
    /\ UNCHANGED <<inputs, dirExists, files, pc, locals, outcome, ci, cj,
                   downloaded_count, report>>

\* Counted without the test: every result is counted
CountedAlways(success) == 1

\* what the loop body adds for one result: if success: downloaded_count += 1
Counted(success) == IF success THEN 1 ELSE 0

\* for success in executor.map(...): the next result, in input order
TakeResult ==
    /\ cpc = "iter"
    /\ ci \in Tasks
    /\ pc[ci] = "done"
    /\ outcome[ci] # "Raised"
    /\ downloaded_count' = downloaded_count + Counted(outcome[ci] = "Success")
    /\ ci' = ci + 1
    /\ UNCHANGED <<inputs, dirExists, files, pc, locals, outcome, cpc, cj, report>>

\* future.result() re-raises the task's exception in the calling thread
TakeException ==
    /\ cpc = "iter"
    /\ ci \in Tasks
    /\ pc[ci] = "done"
    /\ outcome[ci] = "Raised"
    /\ cpc' = "cancel"
    /\ cj' = Len(selected_videos)
    /\ UNCHANGED <<inputs, dirExists, files, pc, locals, outcome, ci,
                   downloaded_count, report>>

\* the iterator's cleanup: future.cancel() on the futures not yet iterated, last first
Cancel ==
    /\ cpc = "cancel"
    /\ IF cj > ci
       THEN /\ pc' = [pc EXCEPT ![cj] = IF pc[cj] = "queued" THEN "cancelled" ELSE @]
            /\ cj' = cj - 1
            /\ UNCHANGED cpc
       ELSE /\ cpc' = "unwind"
            /\ UNCHANGED <<pc, cj>>
    /\ UNCHANGED <<inputs, dirExists, files, locals, outcome, ci, downloaded_count, report>>

\* the iterator is exhausted: the for loop ends
IterEnd ==
    /\ cpc = "iter"
    /\ ci = Len(selected_videos) + 1
    /\ cpc' = "join"
    /\ UNCHANGED <<inputs, dirExists, files, pc, locals, outcome, ci, cj,
                   downloaded_count, report>>

\* the with block exits: shutdown(wait=True) joins the workers, then
\* return downloaded_count, or the exception goes on to the caller
Shutdown ==
    /\ cpc \in {"join", "unwind"}
    /\ \A i \in Tasks : pc[i] \in {"done", "cancelled"}
    /\ cpc' = IF cpc = "join" THEN "returned" ELSE "raised"
    /\ UNCHANGED <<inputs, dirExists, files, pc, locals, outcome, ci, cj,
                   downloaded_count, report>>

\* Report with the skipped tasks left out of the total
ReportAttempted ==
    /\ cpc = "returned"
    /\ report' = <<downloaded_count,
                   Cardinality({i \in Tasks : outcome[i] # "SkippedNotVideo"})>>
    /\ cpc' = "exit"
    /\ UNCHANGED <<inputs, dirExists, files, pc, locals, outcome, ci, cj, downloaded_count>>

\* print(f"Total videos downloaded: ({downloaded_count}/{len(selected_videos)})")
Report ==
    /\ cpc = "returned"
    /\ report' = <<downloaded_count, Len(selected_videos)>>
    /\ cpc' = "exit"
    /\ UNCHANGED <<inputs, dirExists, files, pc, locals, outcome, ci, cj, downloaded_count>>

\* the identifiers a task can have
TaskIds == 1..(IF PoolTasks > MaxTasks THEN PoolTasks ELSE MaxTasks)

Worker ==
    \E i \in TaskIds :
        \/ Admit(i)
        \/ CheckDir(i)
        \/ MakeDirs(i)
        \/ Get(i)
        \/ FetchFail(i)
        \/ Response(i)
        \/ Resolve(i)
        \/ Probe(i)
        \/ Open(i)
        \/ OpenFail(i)
        \/ WriteChunk(i)
        \/ StreamFail(i)
        \/ WriteFail(i)

Caller ==
    \/ Call
    \/ TakeResult
    \/ TakeException
    \/ Cancel
    \/ IterEnd
    \/ Shutdown
    \/ Report

Next == Worker \/ Caller

Spec == Init /\ [][Next]_vars

SpecSan == InitSan /\ [][Next]_vars

SpecPool == InitPool /\ [][Next]_vars

\* SpecPool with the worker threads scheduled: an idle worker that can take a
\* work item from the queue does take it
FairSpecPool == SpecPool /\ \A i \in TaskIds : WF_vars(Admit(i))

(***************************************************************************)
(* Properties.                                                             *)
(***************************************************************************)
\* the name task i derives from its URL before disambiguation
Hint(i) == sanitize_filename(selected_videos[i])

\* task i has opened the file video_name[i] for writing
Opened(i) == video_name[i] \in DOMAIN files /\ i \in files[video_name[i]].writers

\* the outcomes download_video reports by returning
Terminal == {"Success", "SkippedNotVideo", "Failed"}

\* the calling thread has left download_videos_concurrently
CallOver == cpc \in {"returned", "raised"} \/ (cpc = "exit" /\ Len(selected_videos) > 0)

\* C1: tasks with identical hints that have opened their files for writing have
\* opened pairwise distinct paths (no task overwrites the file of another task).
C1_DistinctPaths ==
    \A i, j \in Tasks :
        (i # j /\ Hint(i) = Hint(j) /\ Opened(i) /\ Opened(j))
            => video_name[i] # video_name[j]

\* C2: at most 5 tasks at a time are between issuing their GET and the end of
\* download_video, in batches of more than 5 tasks.
C2_AtMostFiveConnections == Cardinality(Connected) <= 5

\* five tasks hold a connection while another one waits in the queue
C2_Witness ==
    /\ Cardinality(Connected) = 5
    /\ \E i \in Tasks : pc[i] = "queued"

\* C3: no per-task error leaves download_video as an exception: the call is never
\* aborted by one, and no queued task is cancelled because of one.
C3_ErrorsContained ==
    /\ cpc \notin {"cancel", "unwind", "raised"}
    /\ \A i \in Tasks : pc[i] # "cancelled"

\* exactly one task of the batch fails its fetch and nothing fails the others
OneFetchFails ==
    /\ Cardinality({i \in Tasks : fate[i] = "fetchfail"}) = 1
    /\ \A i \in Tasks : fate[i] \in {"fetchfail", "ok"}

\* C4: when exactly one task fails its fetch and every other task would succeed,
\* the call returns, with every task at a terminal outcome and a count of
\* len(selected_videos) - 1.
C4_Isolation ==
    (OneFetchFails /\ CallOver) =>
        /\ cpc # "raised"
        /\ \A i \in Tasks : pc[i] = "done" /\ outcome[i] \in Terminal
        /\ downloaded_count = Len(selected_videos) - 1

\* C5: a file that is in the folder before the batch is never opened for writing,
\* truncated or deleted: it stays there with its content and without writers.
C5_ExistingFilesUntouched ==
    \A nm \in preexisting :
        nm \in DOMAIN files /\ files[nm] = [writers |-> {}, data |-> OldData]

\* a task whose hint is the name of a file of before the batch has downloaded
C5_Witness ==
    \E i \in Tasks : Hint(i) \in preexisting /\ outcome[i] = "Success"

\* the name the claim states for a hint: the hint when it is free, otherwise
\* stem_k.ext for the smallest k >= 1 such that stem_k.ext is free
ExpectedName(hint) ==
    LET stem == splitext(hint)[1]
        ext == splitext(hint)[2]
        candidate(k) == stem \o <<"_">> \o IntStr(k) \o ext
        free == {k \in 1..(Cardinality(DOMAIN files) + 1) :
                    ~(dirExists /\ candidate(k) \in DOMAIN files)}
    IN  IF ~(dirExists /\ (hint \in FolderNames \/ hint \in DOMAIN files))
        THEN hint
        ELSE candidate(CHOOSE k \in free : \A m \in free : k <= m)

\* C6: the name a task settles on, at the step that settles it, is its hint when
\* the hint is free in the folder and otherwise stem_k.ext for the smallest k >= 1
\* that is free.
C6_SmallestSuffix ==
    [][\A i \in Tasks :
          (pc[i] \in {"resolve", "probe"} /\ pc'[i] = "open")
              => video_name'[i] = ExpectedName(Hint(i))]_vars

\* with v.m in the folder, two tasks with the hint v.m have downloaded to v_1.m
\* and to v_2.m
C6_Witness ==
    /\ preexisting = {NameV}
    /\ \E i, j \in Tasks :
         /\ Hint(i) = NameV /\ Hint(j) = NameV
         /\ video_name[i] = NameV1
         /\ video_name[j] = <<"v", "_", "2", ".", "m">>
         /\ outcome[i] = "Success" /\ outcome[j] = "Success"

\* C7: a task whose response is not a video never resolves a name, never opens or
\* writes a file, and once its response has arrived ends with SkippedNotVideo.
C7_NonVideoWritesNothing ==
    \A i \in Tasks :
        fate[i] = "notvideo" =>
            /\ pc[i] \notin {"resolve", "probe", "open", "write"}
            /\ video_name[i] = <<>> /\ written[i] = 0
            /\ \A nm \in DOMAIN files : i \notin files[nm].writers
            /\ (pc[i] = "done" /\ outcome[i] # "Raised") => outcome[i] = "SkippedNotVideo"

\* a non-video task was skipped in a batch in which another task downloaded
C7_Witness ==
    \E i, j \in Tasks :
        /\ fate[i] = "notvideo" /\ outcome[i] = "SkippedNotVideo"
        /\ outcome[j] = "Success"

\* C8: when the calling thread leaves download_videos_concurrently, every task of
\* the input list has run to one of the outcomes Success, SkippedNotVideo, Failed.
C8_AllTerminalAtReturn ==
    CallOver => \A i \in Tasks : pc[i] = "done" /\ outcome[i] \in Terminal

\* C9: the count download_videos_concurrently returns is the number of tasks
\* whose outcome is Success.
C9_CountIsSuccesses ==
    cpc = "returned" =>
        downloaded_count = Cardinality({i \in Tasks : outcome[i] = "Success"})

\* the count is returned for a batch with a success and a task that did not succeed
C9_Witness ==
    /\ cpc = "returned"
    /\ \E i, j \in Tasks :
         outcome[i] = "Success" /\ outcome[j] \in {"SkippedNotVideo", "Failed"}

\* C10: the total the summary reports is the length of the input list, and the
\* reported count of downloads is at most that total.
C10_TotalIsInputLength ==
    report # <<>> => report[2] = Len(selected_videos) /\ report[1] <= report[2]

\* a summary is printed for a batch with a skipped task and a download
C10_Witness ==
    /\ report # <<>>
    /\ report[1] >= 1
    /\ \E i \in Tasks : outcome[i] = "SkippedNotVideo"

\* name holds no forbidden character and no '%20'
Clean(name) ==
    /\ \A k \in 1..Len(name) : name[k] \notin Forbidden
    /\ \A k \in 1..Len(name) : ~HasAt(name, k, <<"%", "2", "0">>)

\* task i holds in video_name what sanitize_filename returned
Sanitized(i) == pc[i] = "open" /\ counter[i] = 0

\* C11: the name sanitize_filename returns holds none of < > : " / \ | ? * and
\* no literal '%20'.
C11_NameIsClean ==
    \A i \in Tasks : Sanitized(i) => Clean(video_name[i])

\* task i is about to create, or has created, the file video_name[i]
Creates(i) == pc[i] \in {"open", "write"} \/ Opened(i)

\* C12: the name under which a task creates its file is never empty, and never a
\* name of the folder itself, also when the hint is empty: nothing is ever
\* opened for writing at the path of the folder.
C12_NameNotEmpty ==
    /\ \A i \in Tasks : Creates(i) => video_name[i] \notin FolderNames
    /\ \A nm \in DOMAIN files : nm \notin FolderNames

\* a task whose URL path ends in '/' (empty hint) has downloaded to the file _1
C12_Witness ==
    \E i \in Tasks :
        /\ selected_videos[i] = PathUrl(<<>>)
        /\ Hint(i) = <<>>
        /\ video_name[i] = <<"_", "1">>
        /\ Opened(i) /\ outcome[i] = "Success"

\* the name of a field name=value of a query string (the field itself without '=')
FieldName(nv) == IF Find(nv, "=") = 0 THEN nv ELSE Before(nv, Find(nv, "="))

\* the value of a field name=value of a query string, blank or not
FieldValue(nv) == IF Find(nv, "=") = 0 THEN <<>> ELSE From(nv, Find(nv, "=") + 1)

\* the decoded values of the fields named f that the URL carries, in order
CarriedF(url) ==
    LET fields == SelectSeq(Split(urlsplit(url).query, "&"),
                            LAMBDA nv : FieldName(nv) = <<"f">>)
    IN  [k \in 1..Len(fields) |->
            unquote(Replace(FieldValue(fields[k]), <<"+">>, <<" ">>))]

\* the hint the precedence rule states for a URL, before '%20' and the forbidden
\* characters are dealt with
StatedHint(url) ==
    IF CarriedF(url) # <<>> THEN CarriedF(url)[1] ELSE basename(urlsplit(url).path)

\* C13: the name sanitize_filename returns comes from the first value of the
\* query parameter f whenever the URL carries a field f, and from the last path
\* segment only when it carries none.
C13_QueryParamFirst ==
    \A i \in Tasks :
        Sanitized(i) =>
            video_name[i] =
                ReSub(Replace(StatedHint(selected_videos[i]), <<"%", "2", "0">>, <<>>))

\* what does hold: when the first field f of the URL has a value, the name comes
\* from that value and the path is ignored
FirstValueWhenNonBlank ==
    \A i \in Tasks :
        (Sanitized(i) /\ CarriedF(selected_videos[i]) # <<>>
                      /\ CarriedF(selected_videos[i])[1] # <<>>) =>
            video_name[i] =
                ReSub(Replace(StatedHint(selected_videos[i]), <<"%", "2", "0">>, <<>>))

\* the outcome that the fetch of a task alone dictates, for the fates that leave
\* the disk alone
ByFetch(f) ==
    CASE f = "ok" -> "Success"
      [] f = "fetchfail" -> "Failed"
      [] f = "notvideo" -> "SkippedNotVideo"

\* C14: a task that nothing but its fetch can fail ends with the outcome its own
\* fetch dictates, also when the folder is missing at the start and another
\* worker creates it first: os.makedirs never makes a task raise.
C14_DirectoryRaceHarmless ==
    \A i \in Tasks :
        (pc[i] = "done" /\ fate[i] \in {"ok", "fetchfail", "notvideo"})
            => outcome[i] = ByFetch(fate[i])

\* task i was cut off mid-stream: it has created its file, written fewer chunks
\* than the body has, and is over
CutOff(i) ==
    /\ pc[i] = "done"
    /\ fate[i] \in {"streamerr", "writeerr"}
    /\ Opened(i)

\* C15: a task cut off mid-stream by a network or an I/O exception has the
\* outcome Failed, and its file stays in the folder, where a later resolution
\* of the same name finds it.
C15_MidStreamFailed ==
    \A i \in Tasks :
        CutOff(i) => outcome[i] = "Failed" /\ PathExists(video_name[i])

\* what does hold: cut off by the network, the task returns False and its file
\* stays; cut off by the disk, its file stays
PartialFileStays ==
    \A i \in Tasks :
        CutOff(i) =>
            /\ PathExists(video_name[i])
            /\ fate[i] = "streamerr" => outcome[i] = "Failed"

\* the number of probes a task can need at most, known before the batch starts:
\* one name per file of the folder and per task of the batch, and the hint itself
MaxCounter == Cardinality(preexisting) + Len(selected_videos) + 1

\* C16: the probe loop of every task is bounded: its counter never exceeds
\* MaxCounter, whatever the other workers create in the meantime; every test of
\* the loop either finds the name taken and moves the counter on by one, or
\* leaves the loop, for the step that creates the file, with a name that is
\* unused at that moment.
C16_ProbeLoopBounded ==
    /\ [](\A i \in Tasks : counter[i] <= MaxCounter)
    /\ [][\A i \in Tasks :
            (pc[i] = "probe" /\ <<pc[i], video_name[i], counter[i]>>
                                   # <<pc'[i], video_name'[i], counter'[i]>>) =>
                \/ /\ PathExists(video_name[i])
                   /\ pc'[i] = "probe" /\ counter'[i] = counter[i] + 1
                \/ /\ ~PathExists(video_name[i])
                   /\ pc'[i] = "open" /\ video_name'[i] = video_name[i]]_vars

\* with v.m in the folder, a task found v.m and v_1.m taken, the latter created
\* by another worker of the batch, and has downloaded to v_2.m
C16_Witness ==
    /\ preexisting = {NameV}
    /\ \E i \in Tasks :
         /\ counter[i] = 3
         /\ video_name[i] = <<"v", "_", "2", ".", "m">>
         /\ NameV1 \in DOMAIN files
         /\ outcome[i] = "Success"

\* C17: every task of the input list is run, none is cancelled unrun, and when
\* the calling thread leaves download_videos_concurrently the result of every
\* task has been taken by the counting loop.
C17_EveryTaskRunAndCounted ==
    /\ \A i \in Tasks : pc[i] # "cancelled"
    /\ CallOver => \A i \in Tasks : pc[i] = "done" /\ i < ci

\* how far download_video has got in a task
Stage(p) ==
    CASE p = "queued" -> 0
      [] p = "checkdir" -> 1
      [] p = "mkdir" -> 2
      [] p = "get" -> 3
      [] p = "await" -> 4
      [] p = "resolve" -> 5
      [] p = "probe" -> 6
      [] p = "open" -> 7
      [] p = "write" -> 8
      [] p \in {"done", "cancelled"} -> 9

\* what does hold: no task is run twice (it never goes back to an earlier step,
\* so it issues one GET at most), and the counting loop takes the results one by
\* one in input order, each once
AtMostOnce ==
    [][/\ \A i \in Tasks : Stage(pc'[i]) >= Stage(pc[i])
       /\ ci' \in {ci, ci + 1}
       /\ downloaded_count' # downloaded_count => ci' = ci + 1]_vars

\* the tasks submitted to the pool that no worker has started
Queued == {i \in Tasks : cpc # "main" /\ pc[i] = "queued"}

\* a task waits in the queue while fewer than max_workers tasks are running
Starved == Queued # {} /\ Cardinality(Running) < max_workers

====
